---- MODULE Spec2Model ----
(***************************************************************************)
(* HOA document analyser (src/main.py).                                    *)
(*                                                                         *)
(* The source file holds the configuration, the streaming EventHandler,    *)
(* the document loader (prepare_files, read_word_document) and three       *)
(* backend helpers (create_or_update_assistant, verify_assistant_setup,    *)
(* create_or_retrieve_vector_store).  It holds no question loop, no rank   *)
(* bookkeeping and no report writer: those parts are modelled from the     *)
(* specification (sections 4.2, 4.4, 4.5) and are marked as such below.    *)
(*                                                                         *)
(* Four specifications share the variables:                                *)
(*   SpecLoader  prepare_files on bounded directory listings               *)
(*   SpecStore   repeated create_or_retrieve_vector_store calls            *)
(*   SpecRun     assistant set-up, binding check and the question battery  *)
(*   SpecCite    one answer: citation streaming, rank, report listing      *)
(* A specification leaves the variables of the others at their idle value. *)
(***************************************************************************)
EXTENDS Integers, Sequences, FiniteSets, TLC

VARIABLES
    listing,          \* os.listdir(hoa_docs_dir): the directory's entries, in order
    loader_result,    \* how prepare_files ended, and what it returned
    vector_stores,    \* backend: the vector stores, newest first
    vs_returned,      \* what the last create_or_retrieve_vector_store returned
    vs_calls,         \* number of create_or_retrieve_vector_store calls so far
    pc,               \* position of the run
    assistants,       \* backend: the assistants
    assistant_id,     \* id of the assistant the run created (0: none yet)
    qi,               \* index of the question being processed
    attempt,          \* attempt number of the question being processed
    qstate,           \* per question: PENDING, IN_FLIGHT, SUCCEEDED, FAILED
    answers,          \* the Answers recorded so far, in order
    failures,         \* backend failures injected so far
    handler,          \* the EventHandler of the query in progress
    corpus,           \* per ingested file: its authority category
    answer,           \* the Answer being filled in (SpecCite)
    report            \* the report's citation listing for that Answer

vars == << listing, loader_result, vector_stores, vs_returned, vs_calls, pc,
           assistants, assistant_id, qi, attempt, qstate, answers, failures,
           handler, corpus, answer, report >>

loaderVars == << listing, loader_result >>
storeVars == << vector_stores, vs_returned, vs_calls >>
runVars == << pc, assistants, assistant_id, qi, attempt, qstate, answers, failures >>
citeVars == << corpus, answer, report >>

(***************************************************************************)
(* Configuration (src/main.py 13-63).                                      *)
(***************************************************************************)
ASSISTANT_NAME == "HOA Document Analyzer"
VECTOR_STORE_NAME == "HOA DOCUMENT"

\* MAX_RETRIES (19), and the budget off by one either way (faulty variants).
MAX_RETRIES_OneMore == 3 + 1
MAX_RETRIES_OneLess == 3 - 1
MAX_RETRIES == 3

\* len(EXTRACTION_QUESTIONS) (42-63).
\* Faulty variant: the battery without its last question.
EXTRACTION_QUESTIONS_LastDropped == 20 - 1
EXTRACTION_QUESTIONS == 20

(***************************************************************************)
(* Bounds of the model.                                                    *)
(***************************************************************************)
MaxFiles == 2            \* entries of the input directory
MaxStoreCalls == 3       \* create_or_retrieve_vector_store invocations
MaxBackendFailures == 7  \* failed backend queries in one run
MaxTextEvents == 1       \* text events streamed for one answer

(***************************************************************************)
(* Idle values of each specification's variables.                          *)
(***************************************************************************)
EventHandler_init == [response_content |-> "", source_document |-> {}]

LoaderIdle == listing = << >> /\ loader_result = [kind |-> "idle", files |-> << >>]
StoreIdle == vector_stores = << >> /\ vs_returned = 0 /\ vs_calls = 0
RunIdle ==
    /\ pc = "idle" /\ assistants = {} /\ assistant_id = 0 /\ qi = 0 /\ attempt = 0
    /\ qstate = << >> /\ answers = << >> /\ failures = 0
NoAnswer == [citations |-> {}, resolved_authority_rank |-> << >>]
NoReport == [written |-> FALSE, listing |-> << >>]
CiteIdle == corpus = << >> /\ answer = NoAnswer /\ report = NoReport
HandlerIdle == handler = EventHandler_init

(***************************************************************************)
(* Document loader: prepare_files (src/main.py 102-145).                   *)
(*                                                                         *)
(* A directory entry is [isfile, temp, ext, body]: whether it is a regular *)
(* file, whether its name starts with "~$", its lower-cased extension, and  *)
(* what its bytes hold ("text": parses to non-empty text, "empty": parses  *)
(* to the empty string, "corrupt": the parser or the decoder raises).      *)
(* The entry's position in the listing stands for its path.                *)
(***************************************************************************)
Extensions == {".docx", ".pdf", ".txt", ".jpg"}
Bodies == {"text", "empty", "corrupt"}
Entries == [isfile : BOOLEAN, temp : BOOLEAN, ext : Extensions, body : Bodies]

allowed_extensions == {".doc", ".docx", ".pdf", ".txt", ".md"}

\* Lines 110 and 120 call os.path.splittext.  Python's os.path defines splitext
\* only, so evaluating the call raises AttributeError.
os_path_has_splittext == FALSE

\* Line 128 calls page.extract_txt(); PyPDF2 pages define extract_text only.
page_has_extract_txt == FALSE

\* Lines 105-111: the filter is evaluated left to right and short-circuits, so
\* splittext is called for the first entry that is a regular file without the
\* temporary-file prefix.  The comprehension is outside every try block.
ListingRaises(dir) ==
    /\ ~os_path_has_splittext
    /\ \E i \in DOMAIN dir : dir[i].isfile /\ ~dir[i].temp

\* Lines 105-111 when the filter can be evaluated: the paths kept, in order.
RECURSIVE FilePathsFrom(_, _)
FilePathsFrom(dir, i) ==
    IF i > Len(dir) THEN << >>
    ELSE IF dir[i].isfile /\ ~dir[i].temp /\ dir[i].ext \in allowed_extensions
         THEN << i >> \o FilePathsFrom(dir, i + 1)
         ELSE FilePathsFrom(dir, i + 1)

\* read_word_document (93-100): the text, or "" when python-docx raises.
read_word_document(e) == IF e.body = "text" THEN "T" ELSE ""

\* Lines 119-144 for one file: <<"content", c>> or <<"raised">> (the outer
\* except of 143 caught an exception and the file is skipped).
ExtractOne(e) ==
    IF ~os_path_has_splittext THEN << "raised" >>                       \* 120
    ELSE IF e.ext \in {".doc", ".docx"} THEN << "content", read_word_document(e) >>
    ELSE IF e.ext = ".pdf"
         THEN IF page_has_extract_txt /\ e.body = "text"
              THEN << "content", "T" >>
              ELSE << "content", "" >>                                  \* 129-134
    ELSE IF e.body = "corrupt" THEN << "raised" >>                      \* 136-137, 143
    ELSE << "content", IF e.body = "text" THEN "T" ELSE "" >>

\* Lines 117-145: the loop over file_paths.
RECURSIVE FilesWithContent(_, _)
FilesWithContent(dir, paths) ==
    IF paths = << >> THEN << >>
    ELSE LET p == Head(paths)
             x == ExtractOne(dir[p])
             rest == FilesWithContent(dir, Tail(paths))
         IN IF x[1] = "content" /\ x[2] # ""
            THEN << [path |-> p, content |-> x[2]] >> \o rest
            ELSE rest

\* prepare_files as a whole: how the call ends.
prepare_files_result(dir) ==
    IF ListingRaises(dir) THEN [kind |-> "AttributeError", files |-> << >>]
    ELSE LET file_paths == FilePathsFrom(dir, 1)
         IN IF file_paths = << >>
            THEN [kind |-> "SystemExit", files |-> << >>]                \* 113-115
            ELSE [kind |-> "returned", files |-> FilesWithContent(dir, file_paths)]

prepare_files ==
    /\ loader_result.kind = "idle"
    /\ loader_result' = prepare_files_result(listing)
    /\ UNCHANGED << listing, storeVars, runVars, handler, citeVars >>

Listings == UNION { [1..n -> Entries] : n \in 0..MaxFiles }

InitLoader ==
    /\ listing \in Listings
    /\ loader_result = [kind |-> "idle", files |-> << >>]
    /\ StoreIdle /\ RunIdle /\ HandlerIdle /\ CiteIdle

NextLoader == prepare_files

SpecLoader == InitLoader /\ [][NextLoader]_vars

(***************************************************************************)
(* Corpus lookup: create_or_retrieve_vector_store (src/main.py 199-216).   *)
(*                                                                         *)
(* The backend keeps the vector stores newest first, which is the order    *)
(* list(order="desc", order_by="created_at") returns them in.  A store is  *)
(* [id, name].  Every backend call may raise.                              *)
(***************************************************************************)
OTHER_STORE_NAME == "another store"

NewStoreId == Len(vector_stores) + 1

\* Lines 204-207: the first listed store with the configured name, 0 if none.
RECURSIVE FirstNamed(_, _)
FirstNamed(stores, i) ==
    IF i > Len(stores) THEN 0
    ELSE IF stores[i].name = VECTOR_STORE_NAME THEN stores[i].id
    ELSE FirstNamed(stores, i + 1)

\* One call.  list_ok: whether vector_stores.list returned (203); create_ok:
\* whether vector_stores.create returned (214).  A listing that raises and a
\* listing without a match (the ValueError of 209) both reach the handler
\* of 210-216, which creates a store.  vs_returned is the id returned, or -1
\* when create raised out of the handler.
create_or_retrieve_vector_store(list_ok, create_ok) ==
    /\ vs_calls < MaxStoreCalls
    /\ vs_calls' = vs_calls + 1
    /\ LET found == IF list_ok THEN FirstNamed(vector_stores, 1) ELSE 0
       IN IF found # 0
          THEN /\ vs_returned' = found
               /\ UNCHANGED vector_stores
          ELSE IF create_ok
          THEN /\ vector_stores' =
                      << [id |-> NewStoreId, name |-> VECTOR_STORE_NAME] >> \o vector_stores
               /\ vs_returned' = NewStoreId
          ELSE /\ vs_returned' = -1
               /\ UNCHANGED vector_stores
    /\ UNCHANGED << loaderVars, runVars, handler, citeVars >>

\* Environment: a store with another name is created on the same account.
CreateOtherStore ==
    /\ Len(vector_stores) < MaxStoreCalls + 1
    /\ vector_stores' = << [id |-> NewStoreId, name |-> OTHER_STORE_NAME] >> \o vector_stores
    /\ UNCHANGED << vs_returned, vs_calls, loaderVars, runVars, handler, citeVars >>

InitStore ==
    /\ vector_stores \in { << >>, << [id |-> 1, name |-> VECTOR_STORE_NAME] >>,
                           << [id |-> 1, name |-> OTHER_STORE_NAME] >> }
    /\ vs_returned = 0 /\ vs_calls = 0
    /\ LoaderIdle /\ RunIdle /\ HandlerIdle /\ CiteIdle

NextStore ==
    \/ \E list_ok \in BOOLEAN, create_ok \in BOOLEAN :
           create_or_retrieve_vector_store(list_ok, create_ok)
    \/ CreateOtherStore

SpecStore == InitStore /\ [][NextStore]_vars

(***************************************************************************)
(* EventHandler (src/main.py 67-91).  A handler is                         *)
(* [response_content, source_document].  client.files.retrieve may raise;  *)
(* the handler of 85-86 then logs and drops the citation.                  *)
(***************************************************************************)
Files == {"file-1", "file-2", "file-3"}

\* client.files.retrieve(file_id).filename
FilenameOf(file_id) ==
    CASE file_id = "file-1" -> "a.docx"
      [] file_id = "file-2" -> "b.pdf"
      [] file_id = "file-3" -> "c.txt"

on_text_created(h, value) ==
    [h EXCEPT !.response_content = @ \o value \o "\n"]

\* Faulty variant: the citation replaces the set instead of joining it.
on_file_citation_created_Overwrite(h, file_id, retrieve_ok) ==
    IF retrieve_ok
    THEN [h EXCEPT !.source_document = {FilenameOf(file_id)}]
    ELSE h

on_file_citation_created(h, file_id, retrieve_ok) ==
    IF retrieve_ok
    THEN [h EXCEPT !.source_document = @ \cup {FilenameOf(file_id)}]
    ELSE h

(***************************************************************************)
(* Assistant set-up (src/main.py 147-197).                                 *)
(*                                                                         *)
(* A backend assistant is [id, name, tool_resources]; tool_resources is    *)
(* [has_attr, resources, file_search, vector_store_ids]: whether the       *)
(* object has the attribute at all, whether it is truthy, whether its      *)
(* file_search is truthy, and the vector store ids bound there.            *)
(***************************************************************************)
EXPECTED_VS == "vs_expected"
OTHER_VS == "vs_other"
OTHER_ASSISTANT_NAME == "another assistant"

NoToolResources ==
    [has_attr |-> TRUE, resources |-> FALSE, file_search |-> FALSE, vector_store_ids |-> {}]

ToolResources ==
    { [has_attr |-> FALSE, resources |-> FALSE, file_search |-> FALSE, vector_store_ids |-> {}],
      NoToolResources,
      [has_attr |-> TRUE, resources |-> TRUE, file_search |-> FALSE, vector_store_ids |-> {}] }
    \cup { [has_attr |-> TRUE, resources |-> TRUE, file_search |-> TRUE, vector_store_ids |-> s] :
             s \in SUBSET {EXPECTED_VS, OTHER_VS} }

BoundToExpected ==
    [has_attr |-> TRUE, resources |-> TRUE, file_search |-> TRUE,
     vector_store_ids |-> {EXPECTED_VS}]

MaxId(S) == IF S = {} THEN 0 ELSE CHOOSE m \in S : \A x \in S : x <= m

\* client.beta.assistants.retrieve(id)
AssistantById(id) == CHOOSE a \in assistants : a.id = id

\* verify_assistant_setup (186-197): the boolean it returns.
\* Faulty variant: the check that accepts every assistant.
verify_assistant_setup_AlwaysTrue(id, vector_store_id) == TRUE

verify_assistant_setup(id, vector_store_id) ==
    LET tr == AssistantById(id).tool_resources
    IN ~( \/ ~tr.has_attr
          \/ ~tr.resources
          \/ ~tr.file_search
          \/ vector_store_id \notin tr.vector_store_ids )

\* create_or_update_assistant (147-183): every assistant with the configured
\* name is deleted and a fresh one created, with the file_search tool and no
\* tool_resources.  An exception of the backend is re-raised (181-183); api_ok
\* says whether the calls returned.
create_or_update_assistant(api_ok) ==
    /\ pc = "setup"
    /\ IF api_ok
       THEN LET kept == { a \in assistants : a.name # ASSISTANT_NAME }
                id == MaxId({ a.id : a \in assistants }) + 1
            IN /\ assistants' = kept \cup
                      { [id |-> id, name |-> ASSISTANT_NAME, tool_resources |-> NoToolResources] }
               /\ assistant_id' = id
               /\ pc' = "bind"
       ELSE /\ pc' = "backend_error"
            /\ UNCHANGED << assistants, assistant_id >>
    /\ UNCHANGED << qi, attempt, qstate, answers, failures,
                    loaderVars, storeVars, handler, citeVars >>

(***************************************************************************)
(* The run after set-up, modelled from the specification (sections 4.4, 5, *)
(* 6, 7): the caller binds the assistant to the corpus, verifies the       *)
(* binding and stops with a configuration error when it fails; then it     *)
(* processes the battery question by question, retrying a failed query up  *)
(* to MAX_RETRIES attempts.                                                *)
(***************************************************************************)
Questions == 1..EXTRACTION_QUESTIONS

\* The caller's attempt to attach the corpus: the backend ends with any
\* tool_resources (attached, attached elsewhere, not attached).
BindAssistant(tr) ==
    /\ pc = "bind"
    /\ assistants' = { IF a.id = assistant_id THEN [a EXCEPT !.tool_resources = tr] ELSE a :
                         a \in assistants }
    /\ pc' = "verify"
    /\ UNCHANGED << assistant_id, qi, attempt, qstate, answers, failures,
                    loaderVars, storeVars, handler, citeVars >>

\* Fail fast unless verify_assistant_setup returns True.
VerifyBinding ==
    /\ pc = "verify"
    /\ IF verify_assistant_setup(assistant_id, EXPECTED_VS)
       THEN /\ pc' = "battery"
            /\ qi' = 1
       ELSE /\ pc' = "config_error"
            /\ UNCHANGED qi
    /\ UNCHANGED << assistants, assistant_id, attempt, qstate, answers, failures,
                    loaderVars, storeVars, handler, citeVars >>

\* Position after question q reached a terminal state.
Advance(q) == IF q + 1 > EXTRACTION_QUESTIONS THEN "done" ELSE "battery"

\* Faulty variant: a FAILED predecessor is put in flight again.
StartQuestion_RetryFailed ==
    /\ pc = "battery"
    /\ qi \in Questions
    /\ qstate[qi] = "PENDING"
    /\ IF qi > 1 /\ qstate[qi - 1] = "FAILED"
       THEN qstate' = [qstate EXCEPT ![qi - 1] = "IN_FLIGHT"]
       ELSE qstate' = [qstate EXCEPT ![qi] = "IN_FLIGHT"]
    /\ attempt' = 1
    /\ handler' = EventHandler_init
    /\ UNCHANGED << pc, assistants, assistant_id, qi, answers, failures,
                    loaderVars, storeVars, citeVars >>

StartQuestion ==
    /\ pc = "battery"
    /\ qi \in Questions
    /\ qstate[qi] = "PENDING"
    /\ qstate' = [qstate EXCEPT ![qi] = "IN_FLIGHT"]
    /\ attempt' = 1
    /\ handler' = EventHandler_init
    /\ UNCHANGED << pc, assistants, assistant_id, qi, answers, failures,
                    loaderVars, storeVars, citeVars >>

InFlight == pc = "battery" /\ qi \in Questions /\ qstate[qi] = "IN_FLIGHT"

\* The reply streams its text, then its citation.
StreamText ==
    /\ InFlight
    /\ handler.response_content = ""
    /\ handler' = on_text_created(handler, "A")
    /\ UNCHANGED << runVars, loaderVars, storeVars, citeVars >>

StreamCitation ==
    /\ InFlight
    /\ handler.response_content # ""
    /\ handler.source_document = {}
    /\ handler' = on_file_citation_created(handler, "file-1", TRUE)
    /\ UNCHANGED << runVars, loaderVars, storeVars, citeVars >>

SucceededAnswer(q, h) ==
    [question_id |-> q, response_text |-> h.response_content,
     citations |-> h.source_document, status |-> "SUCCEEDED"]

FailedAnswer(q) ==
    [question_id |-> q, response_text |-> "", citations |-> {}, status |-> "FAILED"]

\* The query returns once its reply has streamed.
QuerySucceeds ==
    /\ InFlight
    /\ handler.source_document # {}
    /\ answers' = Append(answers, SucceededAnswer(qi, handler))
    /\ qstate' = [qstate EXCEPT ![qi] = "SUCCEEDED"]
    /\ pc' = Advance(qi)
    /\ qi' = qi + 1
    /\ UNCHANGED << assistants, assistant_id, attempt, failures, handler,
                    loaderVars, storeVars, citeVars >>

\* The query raises, at any point of the stream: retry after RETRY_DELAY with a
\* fresh handler, or record the question FAILED once the budget is used up.
QueryFails ==
    /\ InFlight
    /\ failures < MaxBackendFailures
    /\ failures' = failures + 1
    /\ IF attempt < MAX_RETRIES
       THEN /\ attempt' = attempt + 1
            /\ handler' = EventHandler_init
            /\ UNCHANGED << pc, qi, qstate, answers >>
       ELSE /\ answers' = Append(answers, FailedAnswer(qi))
            /\ qstate' = [qstate EXCEPT ![qi] = "FAILED"]
            /\ pc' = Advance(qi)
            /\ qi' = qi + 1
            /\ UNCHANGED << attempt, handler >>
    /\ UNCHANGED << assistants, assistant_id, loaderVars, storeVars, citeVars >>

InitAssistants ==
    { {},
      { [id |-> 1, name |-> ASSISTANT_NAME, tool_resources |-> BoundToExpected] },
      { [id |-> 1, name |-> OTHER_ASSISTANT_NAME, tool_resources |-> BoundToExpected],
        [id |-> 2, name |-> ASSISTANT_NAME, tool_resources |-> NoToolResources] } }

InitRun ==
    /\ pc = "setup"
    /\ assistants \in InitAssistants
    /\ assistant_id = 0 /\ qi = 0 /\ attempt = 0
    /\ qstate = [q \in Questions |-> "PENDING"]
    /\ answers = << >> /\ failures = 0
    /\ LoaderIdle /\ StoreIdle /\ HandlerIdle /\ CiteIdle

NextRun ==
    \/ \E api_ok \in BOOLEAN : create_or_update_assistant(api_ok)
    \/ \E tr \in ToolResources : BindAssistant(tr)
    \/ VerifyBinding
    \/ StartQuestion
    \/ StreamText
    \/ StreamCitation
    \/ QuerySucceeds
    \/ QueryFails

SpecRun == InitRun /\ [][NextRun]_vars

(***************************************************************************)
(* Authority ranking (src/main.py 23-40).                                  *)
(***************************************************************************)
\* Faulty variant: the ranks of CC&Rs and Meeting Minutes exchanged.
AUTHORITY_RANKING_Swapped ==
    ("CC&R Amendments" :> 1) @@ ("CC&Rs" :> 13) @@ ("Bylaws" :> 3) @@
    ("Articles of Incorporation" :> 4) @@ ("Operating Rules" :> 5) @@
    ("Election Rules" :> 6) @@ ("Annual Budget Report" :> 7) @@
    ("Financial Statements" :> 8) @@ ("Reserve Study" :> 9) @@
    ("Reserve Fund" :> 10) @@ ("Fine Schedule" :> 11) @@
    ("Assessment Enforcement" :> 12) @@ ("Meeting Minutes" :> 2) @@
    ("Additional Operational Policies & Guidelines" :> 14) @@
    ("Insurance & Evidence of Insurance (COI)" :> 15) @@
    ("Flood & General Liability Insurance" :> 16)

AUTHORITY_RANKING ==
    ("CC&R Amendments" :> 1) @@ ("CC&Rs" :> 2) @@ ("Bylaws" :> 3) @@
    ("Articles of Incorporation" :> 4) @@ ("Operating Rules" :> 5) @@
    ("Election Rules" :> 6) @@ ("Annual Budget Report" :> 7) @@
    ("Financial Statements" :> 8) @@ ("Reserve Study" :> 9) @@
    ("Reserve Fund" :> 10) @@ ("Fine Schedule" :> 11) @@
    ("Assessment Enforcement" :> 12) @@ ("Meeting Minutes" :> 13) @@
    ("Additional Operational Policies & Guidelines" :> 14) @@
    ("Insurance & Evidence of Insurance (COI)" :> 15) @@
    ("Flood & General Liability Insurance" :> 16)

(***************************************************************************)
(* One answer, modelled from the specification (sections 3, 4.2, 4.4,      *)
(* 4.5): the classifier's rank of a document, the rank bookkeeping as      *)
(* citations stream into the handler, and the report's citation listing.   *)
(* An Answer is [citations, resolved_authority_rank]: the cited Documents  *)
(* (file ids) and << >> (unranked) or << r >>.                             *)
(***************************************************************************)
\* Categories the classifier assigns in the model; the last one is not in the
\* ranking table.
Categories == {"CC&R Amendments", "CC&Rs", "Meeting Minutes", "Newsletter"}

\* Section 4.2: the table's rank, or (max configured rank + 1) for a category
\* the table does not hold.
AuthorityRank(category) ==
    IF category \in DOMAIN AUTHORITY_RANKING
    THEN AUTHORITY_RANKING[category]
    ELSE MaxId({ AUTHORITY_RANKING[c] : c \in DOMAIN AUTHORITY_RANKING }) + 1

RankOfFile(f) == AuthorityRank(corpus[f])

\* The Documents the handler's filenames refer to.
DocsNamed(names) == { f \in Files : FilenameOf(f) \in names }
DocNamed(name) == CHOOSE f \in Files : FilenameOf(f) = name

\* Section 4.4 step 4: the running minimum, over the newly cited documents.
RECURSIVE LowerRank(_, _)
LowerRank(r, docs) ==
    IF docs = {} THEN r
    ELSE LET d == CHOOSE x \in docs : TRUE
             r2 == IF r = << >> \/ RankOfFile(d) < r[1] THEN << RankOfFile(d) >> ELSE r
         IN LowerRank(r2, docs \ {d})

\* Section 4.4 step 3: after the handler took a citation event, the Answer's
\* citations are the documents the handler holds, and the rank is lowered by
\* the documents the event added.
ResolveCitations(a, h, h2) ==
    [citations |-> DocsNamed(h2.source_document),
     resolved_authority_rank |->
         LowerRank(a.resolved_authority_rank,
                   DocsNamed(h2.source_document \ h.source_document))]

TextEvent ==
    /\ ~report.written
    /\ Len(handler.response_content) < 2 * MaxTextEvents
    /\ handler' = on_text_created(handler, "A")
    /\ UNCHANGED << corpus, answer, report, loaderVars, storeVars, runVars >>

CitationEvent(file_id, retrieve_ok) ==
    /\ ~report.written
    /\ handler' = on_file_citation_created(handler, file_id, retrieve_ok)
    /\ answer' = ResolveCitations(answer, handler, handler')
    /\ UNCHANGED << corpus, report, loaderVars, storeVars, runVars >>

\* Section 4.5: the cited filenames in ascending rank.  The citations are a set;
\* the writer takes them in any order and sorts by insertion.
RECURSIVE InsertByRank(_, _)
InsertByRank(name, sorted) ==
    IF sorted = << >> THEN << name >>
    ELSE IF RankOfFile(DocNamed(name)) < RankOfFile(DocNamed(Head(sorted)))
         THEN << name >> \o sorted
         ELSE << Head(sorted) >> \o InsertByRank(name, Tail(sorted))

RECURSIVE SortByRank(_)
SortByRank(names) ==
    IF names = << >> THEN << >>
    ELSE InsertByRank(names[Len(names)], SortByRank(SubSeq(names, 1, Len(names) - 1)))

Enumerations(S) ==
    { e \in [1..Cardinality(S) -> S] : \A i, j \in DOMAIN e : e[i] = e[j] => i = j }

WriteReport ==
    /\ ~report.written
    /\ \E e \in Enumerations({ FilenameOf(f) : f \in answer.citations }) :
           report' = [written |-> TRUE, listing |-> SortByRank(e)]
    /\ UNCHANGED << corpus, answer, handler, loaderVars, storeVars, runVars >>

InitCite ==
    /\ corpus \in [Files -> Categories]
    /\ answer = NoAnswer
    /\ report = NoReport
    /\ LoaderIdle /\ StoreIdle /\ RunIdle /\ HandlerIdle

NextCite ==
    \/ TextEvent
    \/ \E f \in Files, retrieve_ok \in BOOLEAN : CitationEvent(f, retrieve_ok)
    \/ WriteReport

SpecCite == InitCite /\ [][NextCite]_vars

(***************************************************************************)
(* Properties.                                                             *)
(***************************************************************************)
Terminal == {"SUCCEEDED", "FAILED"}

\* C1 (SpecRun): the Answers recorded are those of questions 1, 2, ... in
\* order, one each, every one SUCCEEDED or FAILED; once the battery has begun
\* the run only continues or ends normally, it can always take a step until it
\* has ended, and when it has ended there are exactly 20 Answers.
C1_OneAnswerPerQuestion ==
    /\ Len(answers) <= 20
    /\ \A i \in DOMAIN answers :
           answers[i].question_id = i /\ answers[i].status \in Terminal
    /\ (answers # << >>) => pc \in {"battery", "done"}
    /\ (pc = "battery") => ENABLED NextRun
    /\ (pc = "done") => Len(answers) = 20

C1_Witness ==
    /\ pc = "done"
    /\ \E i, j \in DOMAIN answers :
           answers[i].status = "FAILED" /\ answers[j].status = "SUCCEEDED"

\* C2 (SpecRun): when the query of the question in flight fails on attempt 3,
\* the step records that question's Answer as FAILED with empty text and no
\* citations, the run goes on to the next question (or ends normally after the
\* last one), and a run that has ended has brought every question to a
\* terminal state.
C2_ExhaustedIsFailed ==
    /\ [][ (InFlight /\ attempt = 3 /\ failures' = failures + 1) =>
              /\ answers' = Append(answers,
                     [question_id |-> qi, response_text |-> "", citations |-> {},
                      status |-> "FAILED"])
              /\ qstate' = [qstate EXCEPT ![qi] = "FAILED"]
              /\ qi' = qi + 1
              /\ pc' = IF qi = 20 THEN "done" ELSE "battery"
              /\ (qi < 20) => qstate'[qi + 1] = "PENDING" ]_vars
    /\ [](pc = "done" => \A q \in 1..20 : qstate[q] \in Terminal)

C2_Witness ==
    /\ pc = "done"
    /\ \E i, j \in DOMAIN answers :
           i < j /\ answers[i].status = "FAILED" /\ answers[j].status = "SUCCEEDED"

\* C3 (SpecRun): a failed attempt before the third leaves the question in
\* flight for one more attempt and records nothing; a question leaves IN_FLIGHT
\* either by a query that returned, on attempt 1, 2 or 3, and is then SUCCEEDED
\* with the handler's text and citations, or by the failure of attempt 3; after
\* the success the attempt counter does not move until the next question starts.
C3_SuccessWithinBudget ==
    [][ /\ (InFlight /\ failures' = failures + 1 /\ attempt < 3) =>
              /\ qstate' = qstate
              /\ attempt' = attempt + 1
              /\ answers' = answers
        /\ (InFlight /\ qstate'[qi] # "IN_FLIGHT") =>
              IF failures' = failures
              THEN /\ attempt \in 1..3
                   /\ attempt' = attempt
                   /\ qstate'[qi] = "SUCCEEDED"
                   /\ answers' = Append(answers,
                          [question_id |-> qi, response_text |-> handler.response_content,
                           citations |-> handler.source_document, status |-> "SUCCEEDED"])
              ELSE attempt = 3 /\ qstate'[qi] = "FAILED" ]_vars

C3_Witness ==
    /\ pc = "battery"
    /\ attempt = 3
    /\ qi >= 2
    /\ Len(answers) = qi - 1
    /\ answers[qi - 1].status = "SUCCEEDED"
    /\ qstate[qi] = "PENDING"

\* C7 (SpecRun): whenever a question has left PENDING or the battery has begun,
\* the run's assistant has file-search resources whose vector store ids hold
\* the expected id; a run stopped by the configuration error has queried
\* nothing and takes no further step.
C7_NoQueryUnbound ==
    /\ (pc \in {"battery", "done"} \/ \E q \in DOMAIN qstate : qstate[q] # "PENDING") =>
           LET tr == AssistantById(assistant_id).tool_resources
           IN tr.has_attr /\ tr.resources /\ tr.file_search
              /\ EXPECTED_VS \in tr.vector_store_ids
    /\ (pc = "config_error") =>
           /\ \A q \in DOMAIN qstate : qstate[q] = "PENDING"
           /\ answers = << >>
           /\ ~ENABLED NextRun

C7_Witness ==
    /\ pc = "config_error"
    /\ AssistantById(assistant_id).tool_resources.file_search
    /\ AssistantById(assistant_id).tool_resources.vector_store_ids = {OTHER_VS}

\* C9 (SpecRun): at most one question is IN_FLIGHT; a question has left PENDING
\* only if its predecessor is SUCCEEDED or FAILED; a question that is SUCCEEDED
\* or FAILED keeps that state in every later step.
C9_Sequential ==
    /\ [](/\ Cardinality({ q \in DOMAIN qstate : qstate[q] = "IN_FLIGHT" }) <= 1
          /\ \A q \in DOMAIN qstate :
                 (q > 1 /\ qstate[q] # "PENDING") => qstate[q - 1] \in Terminal)
    /\ [][ \A q \in DOMAIN qstate : qstate[q] \in Terminal => qstate'[q] = qstate[q] ]_vars

C9_Witness ==
    /\ pc = "battery"
    /\ qi \in 2..19
    /\ qstate[qi] = "IN_FLIGHT"
    /\ attempt >= 2
    /\ qstate[qi - 1] = "FAILED"
    /\ qstate[qi + 1] = "PENDING"

\* C4 (SpecCite): at every point of the stream, an Answer without citations is
\* unranked and an Answer with citations carries the least authority rank of
\* the documents it cites.
LeastRank(docs) ==
    CHOOSE r \in { RankOfFile(d) : d \in docs } : \A d \in docs : r <= RankOfFile(d)

C4_RankIsMinimum ==
    IF answer.citations = {}
    THEN answer.resolved_authority_rank = << >>
    ELSE answer.resolved_authority_rank = << LeastRank(answer.citations) >>

C4_Witness ==
    /\ ~report.written
    /\ \E d, e \in answer.citations : RankOfFile(d) < RankOfFile(e)
    /\ answer.resolved_authority_rank # << >>

\* C5 (SpecCite): the report lists each cited filename once, in ascending
\* authority rank; a CC&Rs document (rank 2) is listed before a Meeting
\* Minutes document (rank 13).
C5_ListedByRank ==
    report.written =>
        LET l == report.listing
        IN /\ { l[i] : i \in DOMAIN l } = { FilenameOf(f) : f \in answer.citations }
           /\ Len(l) = Cardinality(answer.citations)
           /\ \A i, j \in DOMAIN l :
                  i < j => RankOfFile(DocNamed(l[i])) <= RankOfFile(DocNamed(l[j]))
           /\ \A i, j \in DOMAIN l :
                  (corpus[DocNamed(l[i])] = "CC&Rs" /\ corpus[DocNamed(l[j])] = "Meeting Minutes")
                      => i < j

C5_Witness ==
    /\ report.written
    /\ \E i, j \in DOMAIN report.listing :
           /\ corpus[DocNamed(report.listing[i])] = "CC&Rs"
           /\ corpus[DocNamed(report.listing[j])] = "Meeting Minutes"

\* Loader: the candidates (regular file, no temporary prefix, supported
\* extension) and those among them whose bytes parse to non-empty text.
Candidates(dir) ==
    { i \in DOMAIN dir : dir[i].isfile /\ ~dir[i].temp /\ dir[i].ext \in allowed_extensions }
Extractable(dir) == { i \in Candidates(dir) : dir[i].body = "text" }

\* C6 (SpecLoader): when no entry of the directory has extractable content,
\* prepare_files ends with its no-documents failure (the exit of 113-115), not
\* with a returned list and not with another error.
C6_NoDocumentsIsFatal ==
    (loader_result.kind # "idle" /\ Extractable(listing) = {}) =>
        loader_result.kind = "SystemExit"

\* C10 (SpecLoader): when the directory has candidates, prepare_files returns,
\* and the returned list holds exactly the candidates with extractable content,
\* each once, in listing order.
C10_BadFileSkipped ==
    (loader_result.kind # "idle" /\ Candidates(listing) # {}) =>
        /\ loader_result.kind = "returned"
        /\ { loader_result.files[k].path : k \in DOMAIN loader_result.files }
               = Extractable(listing)
        /\ \A k, m \in DOMAIN loader_result.files :
               k < m => loader_result.files[k].path < loader_result.files[m].path

\* C8 (SpecStore): a call made while a store with the configured name exists
\* returns such a store and creates none, and at most one store with the
\* configured name ever exists.
C8_CreateOrReuse ==
    /\ [](Cardinality({ i \in DOMAIN vector_stores :
                          vector_stores[i].name = VECTOR_STORE_NAME }) <= 1)
    /\ [][ (vs_calls' = vs_calls + 1 /\ FirstNamed(vector_stores, 1) # 0) =>
              /\ vector_stores' = vector_stores
              /\ vs_returned' = FirstNamed(vector_stores, 1) ]_vars

====
